---- MODULE Spec2Model ----
(***************************************************************************)
(* A model of aprs-decoder.py: the APRSPacket decoder (parse and           *)
(* _parse_position) and the serial read loop of main.                      *)
(*                                                                         *)
(* Text is modelled as a sequence of one-character strings, so that the    *)
(* regular expressions, strip, split, join and replace of the source are   *)
(* computed character by character, the way Python computes them.          *)
(***************************************************************************)
EXTENDS Integers, Sequences, FiniteSets, TLC

VARIABLES
    raw,        \* APRSPacket.raw: the line handed to the constructor
    pkt,        \* the other fields of the APRSPacket under construction
    called,     \* which of the classifier / _parse_position ran in parse()
    pc,         \* "new": __init__ set the defaults; "parsed": parse() returned
    input,      \* main: the text the serial port will deliver, in order
    nread,      \* main: how many characters of input ser.read has returned
    buffer,     \* main: the local variable buffer
    decoded,    \* main: the lines an APRSPacket was constructed from, in order
    log,        \* main: the records written to log_file, in order
    format,     \* main: args.format
    running     \* main: FALSE once KeyboardInterrupt left the while loop

vars == <<raw, pkt, called, pc, input, nread, buffer, decoded, log, format, running>>

decoderVars == <<raw, pkt, called, pc>>
mainVars == <<input, nread, buffer, decoded, log, format, running>>

----------------------------------------------------------------------------
(* Characters and the classes the source's patterns use.                   *)

Upper == {"A","B","C","D","E","F","G","H","I","J","K","L","M",
          "N","O","P","Q","R","S","T","U","V","W","X","Y","Z"}
Digit == {"0","1","2","3","4","5","6","7","8","9"}

\* [A-Z0-9-]
AddrChar == Upper \cup Digit \cup {"-"}
\* [A-Z0-9-*]
PathChar == AddrChar \cup {"*"}
\* \s, and the characters str.strip() removes
Whitespace == {" ", "\t", "\n", "\r", "\f"}

\* the text s[i..j-1]; empty when j <= i
Slice(s, i, j) == SubSeq(s, i, j - 1)

\* the first position >= i whose character is not in cls (Len(s)+1 at the end):
\* where a greedy run of cls starting at i stops
RECURSIVE RunEnd(_, _, _)
RunEnd(s, i, cls) ==
    IF i <= Len(s) /\ s[i] \in cls THEN RunEnd(s, i + 1, cls) ELSE i

\* where (.*) stops: '.' matches everything but a newline
RECURSIVE DotStarEnd(_, _)
DotStarEnd(s, i) ==
    IF i <= Len(s) /\ s[i] # "\n" THEN DotStarEnd(s, i + 1) ELSE i

\* str.strip(): the text between the first and the last character that is
\* not whitespace
RECURSIVE LastKept(_, _)
LastKept(s, j) ==
    IF j >= 1 /\ s[j] \in Whitespace THEN LastKept(s, j - 1) ELSE j

Strip(s) == SubSeq(s, RunEnd(s, 1, Whitespace), LastKept(s, Len(s)))

\* str.split(sep) for a one-character sep: the pieces between the separators,
\* empty pieces included, always at least one piece.  The piece being read
\* started at from; i is the character looked at.
RECURSIVE SplitFrom(_, _, _, _)
SplitFrom(s, sep, from, i) ==
    IF i > Len(s) THEN <<SubSeq(s, from, Len(s))>>
    ELSE IF s[i] = sep
    THEN <<SubSeq(s, from, i - 1)>> \o SplitFrom(s, sep, i + 1, i + 1)
    ELSE SplitFrom(s, sep, from, i + 1)

Split(s, sep) == SplitFrom(s, sep, 1, 1)

\* sep.join(parts)
RECURSIVE Join(_, _)
Join(parts, sep) ==
    IF parts = <<>> THEN <<>>
    ELSE IF Len(parts) = 1 THEN parts[1]
    ELSE parts[1] \o <<sep>> \o Join(Tail(parts), sep)

\* str.replace(old, new) for one-character old and new
Replace(s, old, new) == [i \in 1..Len(s) |-> IF s[i] = old THEN new ELSE s[i]]

\* str.startswith(c) for a one-character c
StartsWith(s, c) == s # <<>> /\ s[1] = c

\* the smallest element of a non-empty set of integers
Min(S) == CHOOSE x \in S : \A y \in S : x <= y

----------------------------------------------------------------------------
\* re.search of the base pattern of parse(),
\*   ([A-Z0-9-]+)\s*>\s*([A-Z0-9-]+)((?:,[A-Z0-9-*]+)*):(.*)
\* A backtracking search: the leftmost start that matches; at that start
\* every greedy quantifier takes the longest run with which the rest of
\* the pattern still matches.

NoMatch == [ok |-> FALSE, g1 |-> <<>>, g2 |-> <<>>, g3 |-> <<>>, g4 |-> <<>>]

\* "r, or else alt": the alternative a backtracking matcher turns to when
\* its first choice r did not match
OrElse(r, alt) == IF r.ok THEN r ELSE alt

\* the match r with its group 1, or its group 2, filled in
WithG1(r, t) == IF r.ok THEN [r EXCEPT !.g1 = t] ELSE r
WithG2(r, t) == IF r.ok THEN [r EXCEPT !.g2 = t] ELSE r

RECURSIVE MatchPath(_, _, _), MatchPathRun(_, _, _, _)
\* (?:,[A-Z0-9-*]+)* continued at p (group 3 began at p0), then :(.*)
\* Greedy: one more repetition is tried before stopping at p.
MatchPath(s, p0, p) ==
    OrElse(IF p <= Len(s) /\ s[p] = ","
           THEN MatchPathRun(s, p0, p, RunEnd(s, p + 1, PathChar))
           ELSE NoMatch,
           IF p <= Len(s) /\ s[p] = ":"
           THEN [ok |-> TRUE, g1 |-> <<>>, g2 |-> <<>>,
                 g3 |-> Slice(s, p0, p),
                 g4 |-> Slice(s, p + 1, DotStarEnd(s, p + 1))]
           ELSE NoMatch)

\* the repetition begun at the comma at p, its run of path characters ending
\* at e or, backtracking, earlier (at least one character)
MatchPathRun(s, p0, p, e) ==
    IF e < p + 2 THEN NoMatch
    ELSE OrElse(MatchPath(s, p0, e), MatchPathRun(s, p0, p, e - 1))

\* group 2 ([A-Z0-9-]+) from m ending at e or, backtracking, earlier
RECURSIVE MatchDest(_, _, _)
MatchDest(s, m, e) ==
    IF e <= m THEN NoMatch
    ELSE OrElse(WithG2(MatchPath(s, e, e), Slice(s, m, e)),
                MatchDest(s, m, e - 1))

\* the \s* after '>' from k ending at m or earlier
RECURSIVE MatchAfterGt(_, _, _)
MatchAfterGt(s, k, m) ==
    IF m < k THEN NoMatch
    ELSE OrElse(MatchDest(s, m, RunEnd(s, m, AddrChar)),
                MatchAfterGt(s, k, m - 1))

\* the \s* before '>' from j ending at k or earlier, then '>'
RECURSIVE MatchGt(_, _, _)
MatchGt(s, j, k) ==
    IF k < j THEN NoMatch
    ELSE OrElse(IF k <= Len(s) /\ s[k] = ">"
                THEN MatchAfterGt(s, k + 1, RunEnd(s, k + 1, Whitespace))
                ELSE NoMatch,
                MatchGt(s, j, k - 1))

\* group 1 ([A-Z0-9-]+) from i ending at e or, backtracking, earlier
RECURSIVE MatchSource(_, _, _)
MatchSource(s, i, e) ==
    IF e <= i THEN NoMatch
    ELSE OrElse(WithG1(MatchGt(s, e, RunEnd(s, e, Whitespace)), Slice(s, i, e)),
                MatchSource(s, i, e - 1))

\* BaseMatchAt with the path class [A-Z0-9-*] written for the source too
BaseMatchAtStarSource(s, i) == MatchSource(s, i, RunEnd(s, i, PathChar))

\* the whole pattern anchored at i
BaseMatchAt(s, i) == MatchSource(s, i, RunEnd(s, i, AddrChar))

\* re.search: the anchors are tried from the left
RECURSIVE SearchFrom(_, _)
SearchFrom(s, i) ==
    IF i > Len(s) THEN NoMatch
    ELSE OrElse(BaseMatchAt(s, i), SearchFrom(s, i + 1))

BaseSearch(s) == SearchFrom(s, 1)

----------------------------------------------------------------------------
(* _parse_position                                                         *)

\* the divisor of lat_min/60 and lon_min/60
MinutesPerDegree == 60
\* the two digits after the point of MM.hh are hundredths of a minute
HundredthsPerMinute == 100

\* A float of the decoder.  Every float the decoder makes is deg + min/60
\* with deg a whole number and min a multiple of 0.01, negated or not: it is
\* kept as its sign and its magnitude in units of 1/6000 degree.  The rounding
\* of the double (below 1e-12 degree) is far under that unit, so comparisons
\* with whole degrees and a re-encoding to hundredths of a minute see the
\* exact value.  -0.0 is neg with mag 0: Python compares it equal to 0.
None == [present |-> FALSE, neg |-> FALSE, mag |-> 0]
Float(neg, mag) == [present |-> TRUE, neg |-> neg, mag |-> mag]
\* unary minus
Negate(x) == [x EXCEPT !.neg = ~x.neg]

DigitValue(c) ==
    CASE c = "0" -> 0 [] c = "1" -> 1 [] c = "2" -> 2 [] c = "3" -> 3
      [] c = "4" -> 4 [] c = "5" -> 5 [] c = "6" -> 6 [] c = "7" -> 7
      [] c = "8" -> 8 [] c = "9" -> 9

\* int(text) of a run of digits
RECURSIVE IntOf(_)
IntOf(t) ==
    IF t = <<>> THEN 0
    ELSE IntOf(SubSeq(t, 1, Len(t) - 1)) * 10 + DigitValue(t[Len(t)])

\* float("MM.hh"), in hundredths of a minute
MinutesOf(t) == IntOf(Slice(t, 1, 3)) * HundredthsPerMinute + IntOf(Slice(t, 4, 6))

AllDigits(s, i, j) == \A k \in i..j : s[k] \in Digit

\* [!=](\d{2})(\d{2}\.\d{2})([NS])/(\d{3})(\d{2}\.\d{2})([EW]) anchored at i
PosMatchAt(c, i) ==
    /\ i + 18 <= Len(c)
    /\ c[i] \in {"!", "="}
    /\ AllDigits(c, i + 1, i + 4)
    /\ c[i + 5] = "."
    /\ AllDigits(c, i + 6, i + 7)
    /\ c[i + 8] \in {"N", "S"}
    /\ c[i + 9] = "/"
    /\ AllDigits(c, i + 10, i + 14)
    /\ c[i + 15] = "."
    /\ AllDigits(c, i + 16, i + 17)
    /\ c[i + 18] \in {"E", "W"}

\* [NS]/\d{3}\d{2}\.\d{2}[EW](.*) anchored at j
AfterPosMatchAt(c, j) ==
    /\ j + 10 <= Len(c)
    /\ c[j] \in {"N", "S"}
    /\ c[j + 1] = "/"
    /\ AllDigits(c, j + 2, j + 6)
    /\ c[j + 7] = "."
    /\ AllDigits(c, j + 8, j + 9)
    /\ c[j + 10] \in {"E", "W"}

\* pos_match: the leftmost anchor of the position pattern, 0 when none
PosSearch(c) ==
    LET starts == {i \in 1..Len(c) : PosMatchAt(c, i)}
    IN  IF starts = {} THEN 0 ELSE Min(starts)

\* after_pos: the leftmost anchor of the second pattern, 0 when none
AfterPosSearch(c) ==
    LET starts == {j \in 1..Len(c) : AfterPosMatchAt(c, j)}
    IN  IF starts = {} THEN 0 ELSE Min(starts)

\* after_pos.group(1): (.*) after the second pattern's match at j
AfterPosGroup(c, j) == Slice(c, j + 11, DotStarEnd(c, j + 11))

\* Latitude with the hemisphere never applied
LatitudeUnsigned(c, i) ==
    Float(FALSE, IntOf(Slice(c, i + 1, i + 3)) * MinutesPerDegree * HundredthsPerMinute
                 + MinutesOf(Slice(c, i + 3, i + 8)))

\* self.latitude = lat_deg + lat_min/60; if lat_dir == 'S': negated
Latitude(c, i) ==
    LET lat_deg == IntOf(Slice(c, i + 1, i + 3))
        lat_min == MinutesOf(Slice(c, i + 3, i + 8))
        lat_dir == c[i + 8]
        v == Float(FALSE, lat_deg * MinutesPerDegree * HundredthsPerMinute + lat_min)
    IN  IF lat_dir = "S" THEN Negate(v) ELSE v

\* Longitude with the minutes left out
LongitudeDegreesOnly(c, i) ==
    LET v == Float(FALSE, IntOf(Slice(c, i + 10, i + 13)) * MinutesPerDegree * HundredthsPerMinute)
    IN  IF c[i + 18] = "W" THEN Negate(v) ELSE v

\* Longitude negated for the eastern hemisphere instead of the western
LongitudeEastNegative(c, i) ==
    LET v == Float(FALSE, IntOf(Slice(c, i + 10, i + 13)) * MinutesPerDegree * HundredthsPerMinute
                          + MinutesOf(Slice(c, i + 13, i + 18)))
    IN  IF c[i + 18] = "E" THEN Negate(v) ELSE v

\* self.longitude = lon_deg + lon_min/60; if lon_dir == 'W': negated
Longitude(c, i) ==
    LET lon_deg == IntOf(Slice(c, i + 10, i + 13))
        lon_min == MinutesOf(Slice(c, i + 13, i + 18))
        lon_dir == c[i + 18]
        v == Float(FALSE, lon_deg * MinutesPerDegree * HundredthsPerMinute + lon_min)
    IN  IF lon_dir = "W" THEN Negate(v) ELSE v

\* the comment _parse_position leaves: untouched (p.comment) unless after_pos
\* matched
PositionComment(p, content) ==
    LET j == AfterPosSearch(content)
    IN  IF j # 0 THEN Strip(AfterPosGroup(content, j)) ELSE p.comment

\* _parse_position stopping after it set the latitude
_parse_position_lat_only(p, content) ==
    LET i == PosSearch(content)
    IN  IF i = 0 THEN p ELSE [p EXCEPT !.latitude = Latitude(content, i)]

\* _parse_position(content) on packet p: the packet it leaves
_parse_position(p, content) ==
    LET i == PosSearch(content)
    IN  IF i = 0 THEN p
        ELSE [p EXCEPT !.latitude = Latitude(content, i),
                       !.longitude = Longitude(content, i),
                       !.comment = PositionComment(p, content)]

----------------------------------------------------------------------------
(* APRSPacket.__init__ and parse                                           *)

\* the fields __init__ sets before it calls parse() (timestamp is the clock's
\* and is not kept)
Defaults ==
    [source |-> <<>>, destination |-> <<>>, path |-> <<>>, message_type |-> "",
     latitude |-> None, longitude |-> None, comment |-> <<>>]

\* PathOf without the [1:] that drops the leading comma
PathOfKeepComma(g3) == IF g3 # <<>> THEN Split(g3, ",") ELSE <<>>

\* self.path after "if parts.group(3): self.path = parts.group(3)[1:].split(',')"
PathOf(g3) == IF g3 # <<>> THEN Split(Tail(g3), ",") ELSE <<>>

\* c in content
Contains(content, c) == \E i \in 1..Len(content) : content[i] = c

\* Classify testing "c in content" where the source tests startswith(c)
ClassifyContains(p, content) ==
    IF Contains(content, "!") \/ Contains(content, "=")
    THEN _parse_position([p EXCEPT !.message_type = "Position"], content)
    ELSE IF Contains(content, ">")
    THEN [p EXCEPT !.message_type = "Status", !.comment = Strip(Tail(content))]
    ELSE IF Contains(content, ":")
    THEN [p EXCEPT !.message_type = "Message", !.comment = Strip(Tail(content))]
    ELSE IF Contains(content, "T")
    THEN [p EXCEPT !.message_type = "Telemetry", !.comment = Strip(content)]
    ELSE [p EXCEPT !.message_type = "Other", !.comment = Strip(content)]

\* the content-type dispatch of parse() on the trimmed content, for packet p
Classify(p, content) ==
    IF StartsWith(content, "!") \/ StartsWith(content, "=")
    THEN _parse_position([p EXCEPT !.message_type = "Position"], content)
    ELSE IF StartsWith(content, ">")
    THEN [p EXCEPT !.message_type = "Status", !.comment = Strip(Tail(content))]
    ELSE IF StartsWith(content, ":")
    THEN [p EXCEPT !.message_type = "Message", !.comment = Strip(Tail(content))]
    ELSE IF StartsWith(content, "T")
    THEN [p EXCEPT !.message_type = "Telemetry", !.comment = Strip(content)]
    ELSE [p EXCEPT !.message_type = "Other", !.comment = Strip(content)]

\* which of the two sub-decoders parse() runs on the trimmed content
Called(content) ==
    IF StartsWith(content, "!") \/ StartsWith(content, "=")
    THEN {"classify", "_parse_position"}
    ELSE {"classify"}

\* parse() on a packet whose raw is r and whose other fields are p: the
\* fields it leaves, and what it called
parse(r, p) ==
    LET parts == BaseSearch(r)
        content == Strip(parts.g4)
    IN  IF ~parts.ok THEN [pkt |-> p, called |-> {}]
        ELSE [pkt |-> Classify([p EXCEPT !.source = parts.g1,
                                         !.destination = parts.g2,
                                         !.path = PathOf(parts.g3)],
                               content),
              called |-> Called(content)]

\* APRSPacket(line): the fields of the constructed packet
APRSPacket(line) == parse(line, Defaults).pkt

----------------------------------------------------------------------------
(* The decoder as a state machine: __init__ sets the defaults, parse()     *)
(* fills the packet in.                                                     *)

\* text written as a string per character
SLASH == <<"/">>
DOT == <<".">>

\* the longest head enumerated in full
MaxHead == 4

\* the characters of the enumerated heads: an address character (which is
\* also the Telemetry prefix), the separators of the base pattern, a blank,
\* the digipeater mark
HeadChars == {"T", ">", ",", ":", " ", "*"}

\* every text over HeadChars of length at most n
Texts(n) == UNION {[1..k -> HeadChars] : k \in 0..n}

\* what may follow a head: nothing, the rest of an address, contents of
\* every type
Tails ==
    { <<>>,
      <<":", "!">>,
      <<",", "B", "*", ":", ">", "s", " ">>,
      <<",", "W", "-", "1", ",", "B", ":", " ", ":", "m", ">">>,
      <<":", "=", "4", "9", "0", "3", ".", "5", "0", "N", "/",
        "0", "7", "2", "0", "1", ".", "7", "5", "W", "-", "x">>,
      <<":", "!", "4", "9", "0", "3", ".", "5", "0", "N", "0",
        "0", "7", "2", "0", "1", ".", "7", "5", "W">>,
      <<":", "x", "!", "T">>,
      <<":", " ", "T", "#", "1", " ">>,
      <<" ", "T", ",", "*", ":", ":">>,
      <<"a", ":", "T", "#", "1">> }

RawLines == {h \o t : h \in Texts(MaxHead), t \in Tails}

\* the fields of an uncompressed position report
LatDegrees == {<<"0","0">>, <<"8","9">>, <<"9","0">>, <<"9","9">>}
LonDegrees == {<<"0","0","0">>, <<"1","7","9">>, <<"1","8","0">>, <<"9","9","9">>}
WholeMinutes == {<<"0","0">>, <<"5","9">>, <<"6","0">>, <<"9","9">>}
Hundredths == {<<"0","0">>, <<"9","9">>}
MinuteFields == {m \o DOT \o h : m \in WholeMinutes, h \in Hundredths}
LatFields == {d \o m \o <<ns>> : d \in LatDegrees, m \in MinuteFields, ns \in {"N", "S"}}
LonFields == {d \o m \o <<ew>> : d \in LonDegrees, m \in MinuteFields, ew \in {"E", "W"}}

\* what stands between the data type character and the latitude
Leads == { <<>>, <<"S", "/", "0", "0", "0", "0", "0", ".", "0", "0", "E", " ", "!">> }
\* what follows the longitude
PositionTails == { <<>>, <<" ", ">", "t", " ">> }

PositionContents ==
    {<<b>> \o ld \o lat \o SLASH \o lon \o t :
        b \in {"!", "="}, ld \in Leads, lat \in LatFields, lon \in LonFields,
        t \in PositionTails}

\* the address part put before a content
Header == <<"N", "0", ">", "A", ":">>

PositionLines == {Header \o c : c \in PositionContents}

MainIdle ==
    /\ input = <<>>
    /\ nread = 0
    /\ buffer = <<>>
    /\ decoded = <<>>
    /\ log = <<>>
    /\ format = "human"
    /\ running = FALSE

\* APRSPacket.__init__ up to the call of parse()
InitPacket(lines) ==
    /\ raw \in lines
    /\ pkt = Defaults
    /\ called = {}
    /\ pc = "new"

InitParse == InitPacket(RawLines) /\ MainIdle
InitPos == InitPacket(PositionLines) /\ MainIdle

\* self.parse()
Construct ==
    /\ pc = "new"
    /\ pkt' = parse(raw, pkt).pkt
    /\ called' = parse(raw, pkt).called
    /\ pc' = "parsed"
    /\ UNCHANGED <<raw, mainVars>>

NextDecoder == Construct

SpecParse == InitParse /\ [][NextDecoder]_vars
SpecPos == InitPos /\ [][NextDecoder]_vars

----------------------------------------------------------------------------
(* main: the serial read loop.  log holds the records the loop writes to   *)
(* log_file; what the file held before and the csv header are not kept.    *)

\* packet.timestamp.strftime('%Y-%m-%d %H:%M:%S'): the clock is not
\* modelled, every packet carries this text
TimestampText ==
    <<"2", "0", "2", "5", "-", "0", "1", "-", "0", "1", " ",
      "0", "0", ":", "0", "0", ":", "0", "0">>

\* packet.message_type as text
TypeText(t) ==
    CASE t = "Position" -> <<"P", "o", "s", "i", "t", "i", "o", "n">>
      [] t = "Status" -> <<"S", "t", "a", "t", "u", "s">>
      [] t = "Message" -> <<"M", "e", "s", "s", "a", "g", "e">>
      [] t = "Telemetry" -> <<"T", "e", "l", "e", "m", "e", "t", "r", "y">>
      [] t = "Other" -> <<"O", "t", "h", "e", "r">>
      [] t = "" -> <<>>

\* n >= 0 in decimal, at least w digits wide
RECURSIVE DecimalText(_, _)
DecimalText(n, w) ==
    LET d == <<"0", "1", "2", "3", "4", "5", "6", "7", "8", "9">>[(n % 10) + 1]
    IN  IF n < 10 /\ w <= 1 THEN <<d>> ELSE Append(DecimalText(n \div 10, w - 1), d)

\* str(x) of a float: its sign, its whole part, a point and its fraction.
\* Python writes the shortest fraction that reads back as the same double;
\* here the fraction is cut after five places.
FloatText(x) ==
    (IF x.neg THEN <<"-">> ELSE <<>>)
      \o DecimalText(x.mag \div (MinutesPerDegree * HundredthsPerMinute), 1)
      \o <<".">>
      \o DecimalText(((x.mag % (MinutesPerDegree * HundredthsPerMinute)) * 100000)
                        \div (MinutesPerDegree * HundredthsPerMinute), 5)

\* "if packet.latitude": None, 0.0 and -0.0 are all false
Truthy(x) == x.present /\ x.mag # 0

\* str(x) if x else ""
FloatColumn(x) == IF Truthy(x) THEN FloatText(x) ELSE <<>>

\* the list csv_line of main for a packet p built from line
CsvColumns(line, p) ==
    << TimestampText,
       p.source,
       p.destination,
       Join(p.path, "|"),
       TypeText(p.message_type),
       FloatColumn(p.latitude),
       FloatColumn(p.longitude),
       Replace(p.comment, ",", ";"),
       Replace(line, ",", ";") >>

\* what log_file.write receives for a packet, without its final newline.
\* Only the csv record is written out character by character; a human or
\* json record is kept as the packet it renders.
LogRecord(f, line) ==
    LET p == APRSPacket(line)
    IN  [raw |-> line, packet |-> p,
         text |-> IF f = "csv" THEN Join(CsvColumns(line, p), ",") ELSE <<>>]

\* the most complete lines a stream holds
MaxLines == 2

\* the lines the TNC sends
SerialLines ==
    { <<"A", ">", "B", ":", "!", "0", "0", "0", "0", ".", "0", "0", "N", "/",
        "0", "7", "2", "0", "1", ".", "7", "5", "W">>,
      <<"A", ">", "B", ",", "C", "*", ":", ">", "s", ",", "t", "\r">>,
      <<" ", "\r">>,
      <<"x", ",", "y">> }

RECURSIVE Concat(_)
Concat(ss) == IF ss = <<>> THEN <<>> ELSE Head(ss) \o Concat(Tail(ss))

\* what the port delivers: up to MaxLines lines, each ended by a newline (a
\* read may stop anywhere, so every unfinished line occurs on the way)
Streams ==
    {Concat([i \in 1..Len(ls) |-> Append(ls[i], "\n")]) :
        ls \in UNION {[1..n -> SerialLines] : n \in 0..MaxLines}}

DecoderIdle ==
    /\ raw = <<>>
    /\ pkt = Defaults
    /\ called = {}
    /\ pc = "new"

\* main up to the while loop: the port is open, buffer = ""
InitMain ==
    /\ input \in Streams
    /\ nread = 0
    /\ buffer = <<>>
    /\ decoded = <<>>
    /\ log = <<>>
    /\ format \in {"human", "csv", "json"}
    /\ running = TRUE
    /\ DecoderIdle

\* buffer after "buffer += data" for the next k characters of the stream
Filled(k) == buffer \o SubSeq(input, nread + 1, nread + k)

\* the lines the for loop handles, for lines as split('\n') gave them and
\* before lines.pop(): the last piece left out, each stripped, the empty
\* ones skipped
NonBlank(l) == l # <<>>
Kept(lines) ==
    SelectSeq([i \in 1..(Len(lines) - 1) |-> Strip(lines[i])], NonBlank)

Records(ls) == [i \in 1..Len(ls) |-> LogRecord(format, ls[i])]

\* an iteration with ser.in_waiting == 0: only the sleep
Idle ==
    /\ running
    /\ UNCHANGED vars

\* an iteration in which ser.in_waiting or ser.read raises: the handler
\* prints the error and sleeps
ReadRaises ==
    /\ running
    /\ UNCHANGED vars

\* an iteration that reads k characters and handles every complete line
ReadAndProcess ==
    /\ running
    /\ \E k \in 1..(Len(input) - nread) :
          LET buf == Filled(k)
              lines == Split(buf, "\n")
          IN  /\ nread' = nread + k
              /\ IF Contains(buf, "\n")
                 THEN /\ buffer' = lines[Len(lines)]
                      /\ decoded' = decoded \o Kept(lines)
                      /\ log' = log \o Records(Kept(lines))
                 ELSE /\ buffer' = buf
                      /\ UNCHANGED <<decoded, log>>
    /\ UNCHANGED <<input, format, running, decoderVars>>

\* an iteration that reads k characters and in which print or log_file.write
\* raises for the i-th handled line: the packet was constructed, nothing is
\* written for it, the handler runs and the rest of lines is dropped
ProcessRaises ==
    /\ running
    /\ \E k \in 1..(Len(input) - nread) :
          LET buf == Filled(k)
              lines == Split(buf, "\n")
              kept == Kept(lines)
          IN  /\ Contains(buf, "\n")
              /\ \E i \in 1..Len(kept) :
                    /\ nread' = nread + k
                    /\ buffer' = lines[Len(lines)]
                    /\ decoded' = decoded \o SubSeq(kept, 1, i)
                    /\ log' = log \o Records(SubSeq(kept, 1, i - 1))
    /\ UNCHANGED <<input, format, running, decoderVars>>

\* KeyboardInterrupt: break
Interrupt ==
    /\ running
    /\ running' = FALSE
    /\ UNCHANGED <<input, nread, buffer, decoded, log, format, decoderVars>>

NextMain == Idle \/ ReadRaises \/ ReadAndProcess \/ ProcessRaises \/ Interrupt

SpecMain == InitMain /\ [][NextMain]_vars

----------------------------------------------------------------------------
(* The base grammar as the specification states it,                        *)
(*   SOURCE ">" DESTINATION ( "," PATH_ELEMENT )* ":" CONTENT              *)
(* read declaratively: SOURCE and DESTINATION are maximal runs, blanks are *)
(* allowed around ">", and the first anchor from the left is the match.    *)

AllIn(s, i, j, cls) == \A k \in i..(j - 1) : s[k] \in cls

\* where the maximal run of cls that starts at i stops
RunStop(s, i, cls) ==
    CHOOSE j \in i..(Len(s) + 1) :
        AllIn(s, i, j, cls) /\ (j = Len(s) + 1 \/ s[j] \notin cls)

\* s[e..f-1] is ( "," PATH_ELEMENT )*: every comma is followed by a path
\* character, and the text, when not empty, starts with a comma
IsPathText(s, e, f) ==
    /\ AllIn(s, e, f, PathChar \cup {","})
    /\ e < f => s[e] = ","
    /\ \A k \in e..(f - 1) : s[k] = "," => (k + 1 < f /\ s[k + 1] \in PathChar)

\* the places of the grammar's parts when SOURCE starts at a
SourceStop(s, a) == RunStop(s, a, AddrChar)
GtAt(s, a) == RunStop(s, SourceStop(s, a), Whitespace)
DestStart(s, a) == RunStop(s, GtAt(s, a) + 1, Whitespace)
DestStop(s, a) == RunStop(s, DestStart(s, a), AddrChar)
ColonAt(s, a) == RunStop(s, DestStop(s, a), PathChar \cup {","})

GrammarAt(s, a) ==
    /\ a < SourceStop(s, a)
    /\ GtAt(s, a) <= Len(s)
    /\ s[GtAt(s, a)] = ">"
    /\ DestStart(s, a) < DestStop(s, a)
    /\ ColonAt(s, a) <= Len(s)
    /\ s[ColonAt(s, a)] = ":"
    /\ IsPathText(s, DestStop(s, a), ColonAt(s, a))

MatchesGrammar(s) == \E a \in 1..Len(s) : GrammarAt(s, a)

\* the anchor of the match
Anchor(s) == Min({a \in 1..Len(s) : GrammarAt(s, a)})

\* CONTENT of a matching line, trimmed
ContentOf(s) == Strip(Slice(s, ColonAt(s, Anchor(s)) + 1, Len(s) + 1))

\* C1: for a line that matches the base grammar, source and destination are
\* the matched maximal runs of [A-Z0-9-], and path is the matched path
\* segment split on commas in hop order: joined by commas it gives the
\* segment back without its leading comma, it is empty when there is no
\* segment, and no element is empty or holds a comma.
C1_AddressFields ==
    (pc = "parsed" /\ MatchesGrammar(raw)) =>
        LET a == Anchor(raw)
            e == DestStop(raw, a)
            f == ColonAt(raw, a)
        IN  /\ a = 1 \/ raw[a - 1] \notin AddrChar
            /\ pkt.source = Slice(raw, a, SourceStop(raw, a))
            /\ pkt.destination = Slice(raw, DestStart(raw, a), e)
            /\ e = f => pkt.path = <<>>
            /\ e < f => /\ pkt.path # <<>>
                        /\ Join(pkt.path, ",") = Slice(raw, e + 1, f)
            /\ \A i \in 1..Len(pkt.path) :
                  pkt.path[i] # <<>> /\ AllIn(pkt.path[i], 1, Len(pkt.path[i]) + 1, PathChar)

\* a matching line with two digipeaters, blanks before its source
C1_Witness ==
    /\ pc = "parsed"
    /\ MatchesGrammar(raw)
    /\ Len(pkt.path) = 2
    /\ Anchor(raw) > 1

\* C2: a line that does not match the base grammar (every line without '>'
\* among them) leaves every field at its default, and neither the classifier
\* nor the position decoder ran.
C2_NoMatchDefaults ==
    pc = "parsed" =>
        /\ ~MatchesGrammar(raw) => (pkt = Defaults /\ called = {})
        /\ (\A i \in 1..Len(raw) : raw[i] # ">") => (pkt = Defaults /\ called = {})

\* a parsed line holding '>' and ':' that still does not match
C2_Witness ==
    /\ pc = "parsed"
    /\ ~MatchesGrammar(raw)
    /\ \E i, j \in 1..Len(raw) : i < j /\ raw[i] = ">" /\ raw[j] = ":"
    /\ pkt = Defaults

MessageTypes == {"Position", "Status", "Message", "Telemetry", "Other"}

\* C3: for a matching line message_type is one of the five types, chosen by
\* the first character of the trimmed content alone, in the order '!' or '='
\* (Position), '>' (Status), ':' (Message), 'T' (Telemetry), anything else
\* (Other); Status and Message drop that character and trim the rest into
\* comment, Telemetry and Other keep the whole content as comment.
C3_Classification ==
    (pc = "parsed" /\ MatchesGrammar(raw)) =>
        LET content == ContentOf(raw)
            first == IF content = <<>> THEN "" ELSE content[1]
        IN  /\ pkt.message_type \in MessageTypes
            /\ "classify" \in called
            /\ first \in {"!", "="} <=> pkt.message_type = "Position"
            /\ first = ">" <=> pkt.message_type = "Status"
            /\ first = ":" <=> pkt.message_type = "Message"
            /\ first = "T" <=> pkt.message_type = "Telemetry"
            /\ first \notin {"!", "=", ">", ":", "T"} <=> pkt.message_type = "Other"
            /\ first \in {">", ":"} => pkt.comment = Strip(Tail(content))
            /\ first \notin {"!", "=", ">", ":"} => pkt.comment = content

\* a Message whose comment holds the Status prefix further on
C3_Witness ==
    /\ pc = "parsed"
    /\ pkt.message_type = "Message"
    /\ \E i \in 1..Len(pkt.comment) : pkt.comment[i] = ">"

\* the fixed-width uncompressed position pattern, declaratively: the class of
\* each of its nineteen characters
PositionShape ==
    <<{"!", "="}, Digit, Digit, Digit, Digit, {"."}, Digit, Digit, {"N", "S"}, {"/"},
      Digit, Digit, Digit, Digit, Digit, {"."}, Digit, Digit, {"E", "W"}>>

FitsShape(c, i) ==
    /\ i + Len(PositionShape) - 1 <= Len(c)
    /\ \A k \in 1..Len(PositionShape) : c[i + k - 1] \in PositionShape[k]

HasPosition(c) == \E i \in 1..Len(c) : FitsShape(c, i)

\* C4: latitude and longitude are both present or both absent; they are
\* present only when message_type is Position and the content holds the
\* uncompressed coordinate pattern; a Position content without the pattern
\* leaves both absent, message_type Position and comment empty.
C4_CoordinatesTogether ==
    pc = "parsed" =>
        /\ pkt.latitude.present <=> pkt.longitude.present
        /\ pkt.latitude.present =>
              /\ pkt.message_type = "Position"
              /\ MatchesGrammar(raw)
              /\ HasPosition(ContentOf(raw))
        /\ (pkt.message_type = "Position" /\ ~HasPosition(ContentOf(raw))) =>
              /\ ~pkt.latitude.present
              /\ ~pkt.longitude.present
              /\ pkt.comment = <<>>
              /\ "_parse_position" \in called

\* a Position content of more than its prefix that does not fit the pattern
C4_Witness ==
    /\ pc = "parsed"
    /\ pkt.message_type = "Position"
    /\ Len(ContentOf(raw)) > 1
    /\ ~pkt.latitude.present
    /\ ~pkt.longitude.present

----------------------------------------------------------------------------
(* The position claims, over the uncompressed position reports.            *)

\* where the content's position report starts: the leftmost place that fits
PosAnchor(c) == Min({i \in 1..Len(c) : FitsShape(c, i)})

DigitText == <<"0", "1", "2", "3", "4", "5", "6", "7", "8", "9">>
\* the number a digit character writes
ValueOf(c) == (CHOOSE k \in 1..Len(DigitText) : DigitText[k] = c) - 1
\* the number a run of digits writes
RECURSIVE NumberOf(_)
NumberOf(t) ==
    IF t = <<>> THEN 0 ELSE 10 * NumberOf(SubSeq(t, 1, Len(t) - 1)) + ValueOf(t[Len(t)])

\* n in decimal, at least w digits wide
RECURSIVE Decimal(_, _)
Decimal(n, w) ==
    IF n < 10 /\ w <= 1 THEN <<DigitText[n + 1]>>
    ELSE Append(Decimal(n \div 10, w - 1), DigitText[(n % 10) + 1])

\* the fields of the report that starts at i, as written
LatDegText(c, i) == Slice(c, i + 1, i + 3)
LatMinText(c, i) == Slice(c, i + 3, i + 8)
LatHemi(c, i) == c[i + 8]
LonDegText(c, i) == Slice(c, i + 10, i + 13)
LonMinText(c, i) == Slice(c, i + 13, i + 18)
LonHemi(c, i) == c[i + 18]

\* the numbers the fields write: whole degrees, and minutes in hundredths
DegreesWritten(t) == NumberOf(t)
HundredthsWritten(t) == 100 * NumberOf(Slice(t, 1, 3)) + NumberOf(Slice(t, 4, 6))
\* degrees + minutes/60, in units of 1/6000 degree
UnitsWritten(deg, min) == 6000 * DegreesWritten(deg) + HundredthsWritten(min)

\* x < 0 and x > 0 as Python compares floats: -0.0 is neither
IsNegative(x) == x.neg /\ x.mag > 0
IsPositive(x) == ~x.neg /\ x.mag > 0

\* a constructed packet whose content held a position report
Decoded == pc = "parsed" /\ pkt.latitude.present

\* C5 as stated: comment is everything after the longitude and hemisphere of
\* the match the coordinates were taken from, trimmed.
C5_CommentAfterSameMatch ==
    Decoded =>
        LET c == ContentOf(raw)
        IN  pkt.comment = Strip(Slice(c, PosAnchor(c) + Len(PositionShape), Len(c) + 1))

\* C6 as stated: latitude is negative iff its hemisphere is S and positive
\* when it is N; longitude is negative iff W and positive when E.
C6_SignLaw ==
    Decoded =>
        LET c == ContentOf(raw)
            i == PosAnchor(c)
        IN  /\ IsNegative(pkt.latitude) <=> LatHemi(c, i) = "S"
            /\ LatHemi(c, i) = "N" => IsPositive(pkt.latitude)
            /\ IsNegative(pkt.longitude) <=> LonHemi(c, i) = "W"
            /\ LonHemi(c, i) = "E" => IsPositive(pkt.longitude)

\* C6 amended: the sign law for every coordinate whose fields are not all
\* zero; a coordinate whose fields are all zero decodes to zero (0.0 or -0.0),
\* which is neither negative nor positive, in either hemisphere.
C6_SignLawNonZero ==
    Decoded =>
        LET c == ContentOf(raw)
            i == PosAnchor(c)
            latZero == UnitsWritten(LatDegText(c, i), LatMinText(c, i)) = 0
            lonZero == UnitsWritten(LonDegText(c, i), LonMinText(c, i)) = 0
        IN  /\ IsNegative(pkt.latitude) <=> (LatHemi(c, i) = "S" /\ ~latZero)
            /\ IsPositive(pkt.latitude) <=> (LatHemi(c, i) = "N" /\ ~latZero)
            /\ IsNegative(pkt.longitude) <=> (LonHemi(c, i) = "W" /\ ~lonZero)
            /\ IsPositive(pkt.longitude) <=> (LonHemi(c, i) = "E" /\ ~lonZero)

\* a southern latitude of 0000.00 beside a western longitude that is not zero
C6_Witness ==
    /\ Decoded
    /\ LatHemi(ContentOf(raw), PosAnchor(ContentOf(raw))) = "S"
    /\ pkt.latitude.mag = 0
    /\ IsNegative(pkt.longitude)

\* the limits, in units of 1/6000 degree
LatLimit == 90 * 6000
LonLimit == 180 * 6000

\* C7 as stated: latitude = degrees + minutes/60 (signed) lies in [-90, 90]
\* and longitude in [-180, 180].
C7_InRange ==
    Decoded =>
        LET c == ContentOf(raw)
            i == PosAnchor(c)
        IN  /\ pkt.latitude.mag = UnitsWritten(LatDegText(c, i), LatMinText(c, i))
            /\ pkt.longitude.mag = UnitsWritten(LonDegText(c, i), LonMinText(c, i))
            /\ pkt.latitude.mag <= LatLimit
            /\ pkt.longitude.mag <= LonLimit

\* C7 amended: the magnitude of latitude is degrees + minutes/60 and that of
\* longitude likewise; latitude lies in [-90, 90] when its degrees field is
\* at most 89 and its minutes field below 60.00 (or the field is 9000.00),
\* longitude in [-180, 180] when its degrees field is at most 179 and its
\* minutes field below 60.00 (or the field is 18000.00); whatever the digits,
\* |latitude| <= 99 + 99.99/60 and |longitude| <= 999 + 99.99/60.
C7_InRangeWhenFieldsAre ==
    Decoded =>
        LET c == ContentOf(raw)
            i == PosAnchor(c)
            latDeg == DegreesWritten(LatDegText(c, i))
            latMin == HundredthsWritten(LatMinText(c, i))
            lonDeg == DegreesWritten(LonDegText(c, i))
            lonMin == HundredthsWritten(LonMinText(c, i))
        IN  /\ pkt.latitude.mag = 6000 * latDeg + latMin
            /\ pkt.longitude.mag = 6000 * lonDeg + lonMin
            /\ ((latDeg <= 89 /\ latMin < 6000) \/ (latDeg = 90 /\ latMin = 0))
                  => pkt.latitude.mag <= LatLimit
            /\ ((lonDeg <= 179 /\ lonMin < 6000) \/ (lonDeg = 180 /\ lonMin = 0))
                  => pkt.longitude.mag <= LonLimit
            /\ pkt.latitude.mag <= 99 * 6000 + 9999
            /\ pkt.longitude.mag <= 999 * 6000 + 9999

\* a report whose latitude is within range and whose longitude, 99999.99, is
\* the largest the fields can write
C7_Witness ==
    /\ Decoded
    /\ pkt.latitude.mag <= LatLimit
    /\ pkt.latitude.mag > 89 * 6000
    /\ pkt.longitude.mag = 999 * 6000 + 9999

\* a decoded coordinate written back: whole degrees (at least w digits),
\* minutes to hundredths as MM.hh, and the hemisphere letter, the negative
\* one for a value below zero
Encode(x, w, positive, negative) ==
    LET deg == x.mag \div 6000
        min == x.mag % 6000
    IN  Decimal(deg, w) \o Decimal(min \div 100, 2) \o <<".">> \o Decimal(min % 100, 2)
          \o <<IF IsNegative(x) THEN negative ELSE positive>>

\* C8 as stated: re-encoding the decoded coordinates gives back the degrees
\* field, the MM.hh field and the hemisphere of latitude and of longitude.
C8_RoundTrip ==
    Decoded =>
        LET c == ContentOf(raw)
            i == PosAnchor(c)
        IN  /\ Encode(pkt.latitude, 2, "N", "S") = Slice(c, i + 1, i + 9)
            /\ Encode(pkt.longitude, 3, "E", "W") = Slice(c, i + 10, i + 19)

\* C8 amended: a coordinate whose minutes field is below 60.00 is given back
\* by the re-encoding, degrees field and MM.hh field, and its hemisphere
\* letter too unless the fields are all zero with hemisphere S or W (the
\* decoded -0.0 is not below zero and writes back as N or E).
C8_RoundTripBelowSixty ==
    Decoded =>
        LET c == ContentOf(raw)
            i == PosAnchor(c)
            lat == Encode(pkt.latitude, 2, "N", "S")
            lon == Encode(pkt.longitude, 3, "E", "W")
        IN  /\ HundredthsWritten(LatMinText(c, i)) < 6000 =>
                  /\ SubSeq(lat, 1, Len(lat) - 1) = Slice(c, i + 1, i + 8)
                  /\ (pkt.latitude.mag # 0 \/ LatHemi(c, i) = "N")
                        => lat = Slice(c, i + 1, i + 9)
            /\ HundredthsWritten(LonMinText(c, i)) < 6000 =>
                  /\ SubSeq(lon, 1, Len(lon) - 1) = Slice(c, i + 10, i + 18)
                  /\ (pkt.longitude.mag # 0 \/ LonHemi(c, i) = "E")
                        => lon = Slice(c, i + 10, i + 19)

\* a report with both minutes fields below 60.00, south and west, not zero
C8_Witness ==
    /\ Decoded
    /\ IsNegative(pkt.latitude)
    /\ IsNegative(pkt.longitude)
    /\ pkt.latitude.mag % 6000 = 5999
    /\ HundredthsWritten(LatMinText(ContentOf(raw), PosAnchor(ContentOf(raw)))) < 6000
    /\ HundredthsWritten(LonMinText(ContentOf(raw), PosAnchor(ContentOf(raw)))) < 6000

----------------------------------------------------------------------------
(* The claims about main.                                                  *)

\* C9 as stated: in every csv record the latitude column holds the decoded
\* latitude when the packet has one and is blank when it has none, likewise
\* the longitude column, and the record has exactly nine columns.
C9_CsvCoordinateColumns ==
    format = "csv" =>
        \A i \in 1..Len(log) :
            LET cols == Split(log[i].text, ",")
                p == log[i].packet
            IN  /\ Len(cols) = 9
                /\ p.latitude.present => cols[6] = FloatText(p.latitude)
                /\ ~p.latitude.present => cols[6] = <<>>
                /\ p.longitude.present => cols[7] = FloatText(p.longitude)
                /\ ~p.longitude.present => cols[7] = <<>>

\* the text received so far
Received == SubSeq(input, 1, nread)

\* the newline-terminated lines of text t that are not empty once trimmed,
\* trimmed, in order
RECURSIVE LinesOf(_, _)
LinesOf(t, cur) ==
    IF t = <<>> THEN <<>>
    ELSE IF Head(t) = "\n"
    THEN (IF Strip(cur) = <<>> THEN <<>> ELSE <<Strip(cur)>>) \o LinesOf(Tail(t), <<>>)
    ELSE LinesOf(Tail(t), Append(cur, Head(t)))

\* the text of t after its last newline
RECURSIVE AfterLastNewline(_)
AfterLastNewline(t) ==
    IF t = <<>> \/ t[Len(t)] = "\n" THEN <<>>
    ELSE Append(AfterLastNewline(SubSeq(t, 1, Len(t) - 1)), t[Len(t)])

\* C10 as stated: after every iteration, the exception handler's included,
\* each newline-terminated line received that is not empty once trimmed was
\* decoded into one packet and logged once, in arrival order, and buffer
\* holds the text received after the last newline.
C10_EveryLineOnce ==
    /\ decoded = LinesOf(Received, <<>>)
    /\ [i \in 1..Len(log) |-> log[i].raw] = LinesOf(Received, <<>>)
    /\ buffer = AfterLastNewline(Received)
    /\ ~Contains(buffer, "\n")

====
